---- MODULE Spec2Model ----
(***************************************************************************)
(* A model of src/app.py, the collision dashboard.                         *)
(*                                                                         *)
(* The file holds two copies of the program.  Run as a script, the first   *)
(* copy serves (line 286-288: app.run never returns); imported by a WSGI   *)
(* server, the module runs to its end, the second copy's definitions       *)
(* replace the first's, and line 591 hands the second app to the server.   *)
(* The variable entry says which copy is live.                             *)
(*                                                                         *)
(* Python strings that the code searches (raw vehicle types, the search    *)
(* text) are sequences of one-character strings; values the code only      *)
(* compares for equality (borough, category, factor, injury type) are      *)
(* TLA+ strings.  A value that may be None or NaN is a set: {} for the     *)
(* missing value and {x} for the value x.                                  *)
(***************************************************************************)
EXTENDS Integers, Sequences, FiniteSets, TLC

VARIABLES
    entry,    \* which copy is live: "main" (lines 1-288) or "wsgi" (lines 291-594)
    pc,       \* the module's position: "start", "serving", "crashed"; "call"/"return" for one function
    csv,      \* cleaned_collisions_persons.csv as read_csv returns it: [cols, rows]
    df,       \* the module-level frame df, VEHICLE_CATEGORY included
    options,  \* the five dropdown option lists
    req,      \* the callback's arguments (the State values of one click)
    dff,      \* the frame the callback filtered down to
    out,      \* the three figures the callback returned, or the exception it raised
    threads,  \* the server's request threads, each a callback in progress
    arg,      \* the argument of a single function call
    ret       \* its return value

vars == <<entry, pc, csv, df, options, req, dff, out, threads, arg, ret>>

None == {}
Some(x) == {x}
Get(o) == CHOOSE x \in o : TRUE

Entries == {"main", "wsgi"}

(***************************************************************************)
(* Python's str operations, on sequences of characters.                    *)
(***************************************************************************)
LowerCase == <<"a","b","c","d","e","f","g","h","i","j","k","l","m",
               "n","o","p","q","r","s","t","u","v","w","x","y","z">>
UpperCase == <<"A","B","C","D","E","F","G","H","I","J","K","L","M",
               "N","O","P","Q","R","S","T","U","V","W","X","Y","Z">>
Digits == <<"0","1","2","3","4","5","6","7","8","9">>
Whitespace == {" "}

\* str.upper(), one character
upper_char(c) ==
    IF \E i \in DOMAIN LowerCase : LowerCase[i] = c
    THEN UpperCase[CHOOSE i \in DOMAIN LowerCase : LowerCase[i] = c]
    ELSE c

\* str.upper()
upper(s) == [i \in 1..Len(s) |-> upper_char(s[i])]

\* pat in s
In(pat, s) ==
    \E i \in 0..(Len(s) - Len(pat)) : \A j \in 1..Len(pat) : s[i + j] = pat[j]

\* str.isdigit(): non-empty and every character a digit
isdigit(s) ==
    Len(s) > 0 /\ \A i \in 1..Len(s) : \E d \in DOMAIN Digits : Digits[d] = s[i]

digit_value(c) == (CHOOSE d \in DOMAIN Digits : Digits[d] = c) - 1

\* int(s) of a string of digits
RECURSIVE int(_)
int(s) ==
    IF Len(s) = 0 THEN 0
    ELSE 10 * int(SubSeq(s, 1, Len(s) - 1)) + digit_value(s[Len(s)])

\* str.split(): the maximal runs of non-whitespace characters, in order
RECURSIVE split_from(_, _, _)
split_from(s, i, cur) ==
    IF i > Len(s) THEN (IF cur = <<>> THEN <<>> ELSE <<cur>>)
    ELSE IF s[i] \in Whitespace
         THEN (IF cur = <<>> THEN <<>> ELSE <<cur>>) \o split_from(s, i + 1, <<>>)
         ELSE split_from(s, i + 1, Append(cur, s[i]))

split(s) == split_from(s, 1, <<>>)

\* " ".join(words)
RECURSIVE join(_)
join(words) ==
    IF Len(words) = 0 THEN <<>>
    ELSE IF Len(words) = 1 THEN words[1]
    ELSE words[1] \o <<" ">> \o join(Tail(words))

(***************************************************************************)
(* The substrings the code looks for.                                      *)
(***************************************************************************)
S_AMB == <<"A","M","B">>
S_AMBUL == <<"A","M","B","U","L">>
S_TAXI == <<"T","A","X","I">>
S_BUS == <<"B","U","S">>
S_MOTORCYCLE == <<"M","O","T","O","R","C","Y","C","L","E">>
S_SCOOTER == <<"S","C","O","O","T","E","R">>
S_MOTORBIKE == <<"M","O","T","O","R","B","I","K","E">>
S_BICYCLE == <<"B","I","C","Y","C","L","E">>
S_BIKE == <<"B","I","K","E">>
S_SUV == <<"S","U","V">>
S_STATION_WAGON == <<"S","T","A","T","I","O","N"," ","W","A","G","O","N">>
S_PICK == <<"P","I","C","K">>
S_PICKxUP == <<"P","I","C","K","-","U","P">>
S_PICKUP == <<"P","I","C","K","U","P">>
S_TRUCK == <<"T","R","U","C","K">>
S_VAN == <<"V","A","N">>
S_SEDAN == <<"S","E","D","A","N">>
S_4_DOOR == <<"4"," ","D","O","O","R">>
S_4xDOOR == <<"4","-","D","O","O","R">>
S_2_DOOR == <<"2"," ","D","O","O","R">>
S_2xDOOR == <<"2","-","D","O","O","R">>
S_BRONX == <<"B","R","O","N","X">>
S_BROOKLYN == <<"B","R","O","O","K","L","Y","N">>
S_MANHATTAN == <<"M","A","N","H","A","T","T","A","N">>
S_QUEENS == <<"Q","U","E","E","N","S">>
S_STATEN_ISLAND == <<"S","T","A","T","E","N"," ","I","S","L","A","N","D">>
S_PEDESTRIAN == <<"P","E","D","E","S","T","R","I","A","N">>
S_CYCLIST == <<"C","Y","C","L","I","S","T">>
S_MOTORIST == <<"M","O","T","O","R","I","S","T">>
S_DRIVER == <<"D","R","I","V","E","R">>

(***************************************************************************)
(* normalize_vehicle, first copy (lines 14-46) and second copy (306-338).  *)
(* v is the cell of VEHICLE TYPE CODE 1: None for NaN, else its string.    *)
(***************************************************************************)
isna(v) == v = None

normalize_vehicle_main(v) ==
    IF isna(v) THEN "UNKNOWN"
    ELSE LET s == upper(Get(v)) IN
         IF In(S_AMB, s) \/ In(S_AMBUL, s) THEN "AMBULANCE"
         ELSE IF In(S_TAXI, s) THEN "TAXI"
         ELSE IF In(S_BUS, s) THEN "BUS"
         ELSE IF In(S_MOTORCYCLE, s) \/ In(S_SCOOTER, s) \/ In(S_MOTORBIKE, s)
              THEN "MOTORcycle"
         ELSE IF In(S_BICYCLE, s) \/ In(S_BIKE, s) THEN "BICYCLE"
         ELSE IF In(S_SUV, s) \/ In(S_STATION_WAGON, s) THEN "SUV"
         ELSE IF In(S_PICK, s) \/ In(S_PICKxUP, s) \/ In(S_PICKUP, s) THEN "TRUCK/VAN"
         ELSE IF In(S_TRUCK, s) \/ In(S_VAN, s) THEN "TRUCK/VAN"
         ELSE IF \/ In(S_SEDAN, s)
                 \/ In(S_4_DOOR, s)
                 \/ In(S_4xDOOR, s)
                 \/ In(S_2_DOOR, s)
                 \/ In(S_2xDOOR, s)
              THEN "CAR"
         ELSE "OTHER"

normalize_vehicle_wsgi(v) ==
    IF isna(v) THEN "UNKNOWN"
    ELSE LET s == upper(Get(v)) IN
         IF In(S_AMB, s) \/ In(S_AMBUL, s) THEN "AMBULANCE"
         ELSE IF In(S_TAXI, s) THEN "TAXI"
         ELSE IF In(S_BUS, s) THEN "BUS"
         ELSE IF In(S_MOTORCYCLE, s) \/ In(S_SCOOTER, s) \/ In(S_MOTORBIKE, s)
              THEN "MOTORCYCLE"
         ELSE IF In(S_BICYCLE, s) \/ In(S_BIKE, s) THEN "BICYCLE"
         ELSE IF In(S_SUV, s) \/ In(S_STATION_WAGON, s) THEN "SUV"
         ELSE IF In(S_PICK, s) \/ In(S_PICKxUP, s) \/ In(S_PICKUP, s) THEN "TRUCK/VAN"
         ELSE IF In(S_TRUCK, s) \/ In(S_VAN, s) THEN "TRUCK/VAN"
         ELSE IF \/ In(S_SEDAN, s)
                 \/ In(S_4_DOOR, s)
                 \/ In(S_4xDOOR, s)
                 \/ In(S_2_DOOR, s)
                 \/ In(S_2xDOOR, s)
              THEN "CAR"
         ELSE "OTHER"

\* the normalize_vehicle that the name is bound to when copy e is live
normalize_vehicle(e, v) ==
    IF e = "main" THEN normalize_vehicle_main(v) ELSE normalize_vehicle_wsgi(v)

(***************************************************************************)
(* Bounded inputs: raw vehicle types of up to MaxWords words.              *)
(***************************************************************************)
MaxWords == 2

VehicleWords ==
    { <<"T","a","x","i">>,
      <<"A","M","B","U","L","A","N","C","E">>,
      <<"B","u","s">>,
      <<"m","o","t","o","r","c","y","c","l","e">>,
      <<"S","c","o","o","t","e","r">>,
      <<"M","o","t","o","r","b","i","k","e">>,
      <<"B","i","c","y","c","l","e">>,
      <<"E","-","B","i","k","e">>,
      <<"s","u","v">>,
      <<"S","t","a","t","i","o","n">>,
      <<"W","a","g","o","n">>,
      <<"P","i","c","k","-","u","p">>,
      <<"v","a","n">>,
      <<"T","r","u","c","k">>,
      <<"S","e","d","a","n">>,
      <<"4">>,
      <<"2","-","d","o","o","r">>,
      <<"D","o","o","r">>,
      <<"W","e","i","r","d">>,
      <<"X","Y","Z">> }

SeqsUpTo(S, n) == UNION { [1..k -> S] : k \in 0..n }

\* None (a NaN cell), the empty string, and every phrase of 1..MaxWords words
RawVehicleTypes ==
    {None} \cup { Some(join(ws)) : ws \in SeqsUpTo(VehicleWords, MaxWords) }

(***************************************************************************)
(* Frames.  A frame is [cols, rows]: the set of its column names and the   *)
(* sequence of its rows; a row maps "index" (the label read_csv gave it)   *)
(* and each column name to a cell.  A cell is None (NaN) or Some(value).   *)
(* CRASH_DATETIME's values are never read by the code that is modelled     *)
(* (only the column's presence matters) and are all None here.             *)
(***************************************************************************)
CsvColumns ==
    {"CRASH_DATETIME", "BOROUGH", "YEAR", "VEHICLE TYPE CODE 1",
     "CONTRIBUTING FACTOR VEHICLE 1", "INJURY_TYPE", "LATITUDE", "LONGITUDE"}

EmptyFrame == [cols |-> {}, rows |-> <<>>]

\* frame[mask]: the rows where the boolean series mask is true, columns and
\* index labels kept
where(frame, mask) ==
    LET at == SelectSeq([i \in DOMAIN frame.rows |-> i], LAMBDA i : mask[i])
    IN  [frame EXCEPT !.rows = [k \in DOMAIN at |-> frame.rows[at[k]]]]

\* frame[col].isin(vals): NaN is in no list of values
isin(frame, col, vals) ==
    [i \in DOMAIN frame.rows |->
        /\ frame.rows[i][col] # None
        /\ \E k \in DOMAIN vals : vals[k] = Get(frame.rows[i][col])]

\* frame[col] == value: NaN equals nothing
eq(frame, col, value) == [i \in DOMAIN frame.rows |-> frame.rows[i][col] = Some(value)]

\* frame[col].notna()
notna(frame, col) == [i \in DOMAIN frame.rows |-> frame.rows[i][col] # None]

\* truthiness of a callback argument: None and the empty list or string are false
truthy(x) == x # None /\ Len(Get(x)) > 0

\* sorted(), of integers
RECURSIVE sorted_ints(_)
sorted_ints(S) ==
    IF S = {} THEN <<>>
    ELSE LET m == CHOOSE x \in S : \A y \in S : x <= y
         IN  <<m>> \o sorted_ints(S \ {m})

\* Python's string order, on the strings that occur as cell values
StringOrder ==
    <<"AMBULANCE", "BICYCLE", "BRONX", "BROOKLYN", "BUS", "CAR", "CYCLIST",
      "DRIVER INATTENTION", "MANHATTAN", "MOTORCYCLE", "MOTORIST", "MOTORcycle",
      "OTHER", "PEDESTRIAN", "QUEENS", "STATEN ISLAND", "SUV", "TAXI",
      "TRUCK/VAN", "UNKNOWN", "UNSPECIFIED">>

\* sorted(), of strings
sorted_strs(S) == LET member(x) == x \in S IN SelectSeq(StringOrder, member)

\* df[col].dropna().unique()
unique_values(frame, col) ==
    { Get(frame.rows[i][col]) : i \in { j \in DOMAIN frame.rows : frame.rows[j][col] # None } }

\* frame.groupby(col).size().reset_index(name="crash_count"): one row per
\* non-NaN key (groupby drops NaN keys), keys ascending (groupby sorts);
\* YEAR holds numbers, the other columns strings
groupby_size(frame, col) ==
    LET keys == IF col = "YEAR" THEN sorted_ints(unique_values(frame, col))
                ELSE sorted_strs(unique_values(frame, col))
        size(k) == Len(where(frame, eq(frame, col, k)).rows)
    IN  [i \in DOMAIN keys |-> [key |-> keys[i], crash_count |-> size(keys[i])]]

\* .sort_values("crash_count", ascending=False): equal counts keep their order
\* (frames this small are insertion-sorted, and pandas reverses around the sort)
RECURSIVE sort_by_count_desc(_)
sort_by_count_desc(s) ==
    IF s = <<>> THEN <<>>
    ELSE LET i == CHOOSE a \in DOMAIN s :
                      /\ \A b \in DOMAIN s : s[b].crash_count <= s[a].crash_count
                      /\ \A b \in 1..(a - 1) : s[b].crash_count < s[a].crash_count
         IN  <<s[i]>> \o sort_by_count_desc(SubSeq(s, 1, i - 1) \o SubSeq(s, i + 1, Len(s)))

\* .sort_values("YEAR")
sort_by_key(s) ==
    LET ks == sorted_ints({ s[i].key : i \in DOMAIN s })
    IN  [i \in DOMAIN ks |-> CHOOSE b \in { s[j] : j \in DOMAIN s } : b.key = ks[i]]

\* frame.dropna(subset=cs): the rows with a value in every column of cs
dropna(frame, cs) ==
    where(frame, [i \in DOMAIN frame.rows |-> \A c \in cs : notna(frame, c)[i]])

(***************************************************************************)
(* apply_search_text (lines 455-489; the first copy, lines 164-201, is the *)
(* same code).                                                             *)
(***************************************************************************)
BOROUGHS ==
    << [name |-> "BRONX", chars |-> S_BRONX],
       [name |-> "BROOKLYN", chars |-> S_BROOKLYN],
       [name |-> "MANHATTAN", chars |-> S_MANHATTAN],
       [name |-> "QUEENS", chars |-> S_QUEENS],
       [name |-> "STATEN ISLAND", chars |-> S_STATEN_ISLAND] >>

YEAR_MIN == 2012
YEAR_MAX == 2030
YEAR_TOKEN_LEN == 4

\* the borough that occurs first in the text, not first in BOROUGHS
borough_first_in_text(text_u) ==
    LET at(i) == CHOOSE k \in 0..Len(text_u) :
                     /\ \A j \in 1..Len(BOROUGHS[i].chars) : text_u[k + j] = BOROUGHS[i].chars[j]
                     /\ \A k2 \in 0..(k - 1) :
                          ~In(BOROUGHS[i].chars, SubSeq(text_u, k2 + 1, k2 + Len(BOROUGHS[i].chars)))
        hits == { i \in DOMAIN BOROUGHS : In(BOROUGHS[i].chars, text_u) }
    IN  IF hits = {} THEN None
        ELSE Some(BOROUGHS[CHOOSE i \in hits : \A j \in hits : at(i) <= at(j)].name)

\* next((b for b in BOROUGHS if b in text_u), None)
borough_from_text(text_u) ==
    LET hits == { i \in DOMAIN BOROUGHS : In(BOROUGHS[i].chars, text_u) }
    IN  IF hits = {} THEN None
        ELSE Some(BOROUGHS[CHOOSE i \in hits : \A j \in hits : i <= j].name)

\* the loop over text_u.split(), from its i-th token on
RECURSIVE year_from_tokens(_, _)
year_from_tokens(tokens, i) ==
    IF i > Len(tokens) THEN None
    ELSE IF /\ isdigit(tokens[i])
            /\ Len(tokens[i]) = YEAR_TOKEN_LEN
            /\ YEAR_MIN <= int(tokens[i])
            /\ int(tokens[i]) <= YEAR_MAX
         THEN Some(int(tokens[i]))
         ELSE year_from_tokens(tokens, i + 1)

year_from_text(text_u) == year_from_tokens(split(text_u), 1)

injury_from_text(text_u) ==
    IF In(S_PEDESTRIAN, text_u) THEN Some("PEDESTRIAN")
    ELSE IF In(S_CYCLIST, text_u) \/ In(S_BICYCLE, text_u) THEN Some("CYCLIST")
    ELSE IF In(S_MOTORIST, text_u) \/ In(S_DRIVER, text_u) THEN Some("MOTORIST")
    ELSE None

\* apply_search_text from text_u = text.upper() on (lines 461-489)
search_text_filter(df_in, text) ==
    LET text_u == upper(Get(text))
        b == borough_from_text(text_u)
        y == year_from_text(text_u)
        inj == injury_from_text(text_u)
        d0 == df_in
        d1 == IF b # None THEN where(d0, eq(d0, "BOROUGH", Get(b))) ELSE d0
        d2 == IF y # None THEN where(d1, eq(d1, "YEAR", Get(y))) ELSE d1
        d3 == IF inj # None THEN where(d2, eq(d2, "INJURY_TYPE", Get(inj))) ELSE d2
    IN  [df_out |-> d3, borough |-> b, year |-> y, injury |-> inj]

\* the early return hands back the module's df instead of df_in
apply_search_text_returns_global(df_in, text) ==
    IF ~truthy(text)
    THEN [df_out |-> df, borough |-> None, year |-> None, injury |-> None]
    ELSE search_text_filter(df_in, text)

\* returns (df_out, borough_from_text, year_from_text, injury_from_text)
apply_search_text(df_in, text) ==
    IF ~truthy(text)
    THEN [df_out |-> df_in, borough |-> None, year |-> None, injury |-> None]
    ELSE search_text_filter(df_in, text)

(***************************************************************************)
(* The module body: read the file, add VEHICLE_CATEGORY, build the option  *)
(* lists (lines 9-77 and 298-368).  A missing column raises where the code *)
(* first names it and the import ends there.                               *)
(***************************************************************************)
\* pd.read_csv(..., parse_dates=["CRASH_DATETIME"]); rows are labelled 0, 1, ...
read_csv(file) ==
    IF "CRASH_DATETIME" \notin file.cols
    THEN [raised |-> Some("ValueError"), df |-> EmptyFrame]
    ELSE [raised |-> None,
          df |-> [cols |-> file.cols,
                  rows |-> [i \in DOMAIN file.rows |-> ("index" :> (i - 1)) @@ file.rows[i]]]]

\* df["VEHICLE_CATEGORY"] = df["VEHICLE TYPE CODE 1"].apply(normalize_vehicle)
add_vehicle_category(e, d) ==
    [cols |-> d.cols \cup {"VEHICLE_CATEGORY"},
     rows |-> [i \in DOMAIN d.rows |->
                  ("VEHICLE_CATEGORY" :> Some(normalize_vehicle(e, d.rows[i]["VEHICLE TYPE CODE 1"])))
                  @@ d.rows[i]]]

\* the values of the five option lists, in list order
dropdown_options(d) ==
    [borough |-> sorted_strs(unique_values(d, "BOROUGH")),
     year    |-> sorted_ints(unique_values(d, "YEAR")),
     vehicle |-> sorted_strs(unique_values(d, "VEHICLE_CATEGORY")),
     factor  |-> sorted_strs(unique_values(d, "CONTRIBUTING FACTOR VEHICLE 1")),
     injury  |-> sorted_strs(unique_values(d, "INJURY_TYPE"))]

\* the columns the body subscripts df with: a KeyError when one is missing
SubscriptedAtLoad ==
    {"VEHICLE TYPE CODE 1", "BOROUGH", "YEAR", "CONTRIBUTING FACTOR VEHICLE 1", "INJURY_TYPE"}

\* one copy's body, up to its app.layout
module_body(e, file) ==
    LET rd == read_csv(file) IN
    IF rd.raised # None
    THEN [raised |-> rd.raised, df |-> EmptyFrame, options |-> None]
    ELSE IF ~(SubscriptedAtLoad \subseteq file.cols)
    THEN [raised |-> Some("KeyError"), df |-> EmptyFrame, options |-> None]
    ELSE LET d == add_vehicle_category(e, rd.df)
         IN  [raised |-> None, df |-> d, options |-> Some(dropdown_options(d))]

\* running the file: as a script the first copy's body and then app.run (line 288);
\* imported, the first body and then the second, whose names replace the first's
import_module(e, file) ==
    LET first == module_body("main", file) IN
    IF e = "main" \/ first.raised # None THEN first ELSE module_body("wsgi", file)

(***************************************************************************)
(* update_report (lines 222-281 and 510-585).                              *)
(***************************************************************************)
SAMPLE_CAP_MAIN == 5000
SAMPLE_CAP_WSGI == 8000

Min(a, b) == IF a <= b THEN a ELSE b

\* dff = df.copy(): a frame of the callback's own with the rows of df
df_copy(base) == base

\* the callback filters the module's frame in place
df_after_callback_in_place(base, local) == local

\* what the module-level name df holds once a callback has run: update_report
\* assigns only its local dff, never df
df_after_callback(base, local) == base

\* the dropdown filters without the one on INJURY_TYPE
filter_rows_without_injury(d0, rq) ==
    LET d1 == IF truthy(rq.boroughs)
              THEN where(d0, isin(d0, "BOROUGH", Get(rq.boroughs))) ELSE d0
        d2 == IF truthy(rq.years)
              THEN where(d1, isin(d1, "YEAR", Get(rq.years))) ELSE d1
        d3 == IF truthy(rq.vehicles)
              THEN where(d2, isin(d2, "VEHICLE_CATEGORY", Get(rq.vehicles))) ELSE d2
        d4 == IF truthy(rq.factors)
              THEN where(d3, isin(d3, "CONTRIBUTING FACTOR VEHICLE 1", Get(rq.factors)))
              ELSE d3
    IN  apply_search_text(d4, rq.search_text).df_out

\* the dropdown filters and the search text (lines 513-526, 225-238)
filter_rows(d0, rq) ==
    LET d1 == IF truthy(rq.boroughs)
              THEN where(d0, isin(d0, "BOROUGH", Get(rq.boroughs))) ELSE d0
        d2 == IF truthy(rq.years)
              THEN where(d1, isin(d1, "YEAR", Get(rq.years))) ELSE d1
        d3 == IF truthy(rq.vehicles)
              THEN where(d2, isin(d2, "VEHICLE_CATEGORY", Get(rq.vehicles))) ELSE d2
        d4 == IF truthy(rq.factors)
              THEN where(d3, isin(d3, "CONTRIBUTING FACTOR VEHICLE 1", Get(rq.factors)))
              ELSE d3
        d5 == IF truthy(rq.injuries)
              THEN where(d4, isin(d4, "INJURY_TYPE", Get(rq.injuries))) ELSE d4
    IN  apply_search_text(d5, rq.search_text).df_out

\* px.scatter(title=...): a chart with a title and no data
empty_fig(e) ==
    [chart |-> "scatter",
     title |-> IF e = "main" THEN "No data found." ELSE "No data found for selected filters.",
     data |-> <<>>]

fig_bar(e, d) ==
    LET bar_df == IF e = "main"
                  THEN groupby_size(d, "BOROUGH")
                  ELSE sort_by_count_desc(groupby_size(d, "BOROUGH"))
    IN  [chart |-> "bar", title |-> "Crashes by Borough", data |-> bar_df]

\* the line chart's frame sorted like the bar chart's, descending
fig_line_descending(e, d) ==
    LET asc == groupby_size(d, "YEAR")
    IN  [chart |-> "line", title |-> "Crashes Over Time",
         data |-> [i \in DOMAIN asc |-> asc[Len(asc) + 1 - i]]]

fig_line(e, d) ==
    LET time_df == IF e = "main"
                   THEN groupby_size(d, "YEAR")
                   ELSE sort_by_key(groupby_size(d, "YEAR"))
    IN  [chart |-> "line", title |-> "Crashes Over Time", data |-> time_df]

\* every way to draw k of the positions 1..n, in the order drawn
Draws(n, k) == { p \in [1..k -> 1..n] : \A i, j \in 1..k : i # j => p[i] # p[j] }

\* DataFrame.sample(k): any draw without a seed; with random_state=0 the one
\* draw the generator makes from that state for a frame of n rows
sample(e, d, k) ==
    LET n == Len(d.rows)
        draws == IF e = "main" THEN Draws(n, k) ELSE { CHOOSE p \in Draws(n, k) : TRUE }
    IN  { [i \in 1..k |-> d.rows[p[i]]] : p \in draws }

\* the map figures the callback can return for the filtered frame d
fig_map(e, d) ==
    LET map_df == dropna(d, {"LATITUDE", "LONGITUDE"}) IN
    IF e = "main"
    THEN { [chart |-> "scatter_mapbox", title |-> "Crash Locations (sample)", data |-> rows]
           : rows \in sample(e, map_df, Min(SAMPLE_CAP_MAIN, Len(map_df.rows))) }
    ELSE IF map_df.rows = <<>>
    THEN { [chart |-> "scatter", title |-> "No location data available.", data |-> <<>>] }
    ELSE { [chart |-> "density_mapbox", title |-> "Crash Density Heatmap (sample)", data |-> rows]
           : rows \in sample(e, map_df, Min(SAMPLE_CAP_WSGI, Len(map_df.rows))) }

\* the callback from the copy d0 on: every (dff, figures) it can return, or
\* the exception it raises (dropna raises KeyError for a column the frame lacks)
update_report_from(e, d0, rq) ==
    LET d == filter_rows(d0, rq) IN
    IF d.rows = <<>>
    THEN { [raised |-> None, dff |-> d,
            bar |-> Some(empty_fig(e)), line |-> Some(empty_fig(e)), map |-> Some(empty_fig(e))] }
    ELSE IF ~({"LATITUDE", "LONGITUDE"} \subseteq d.cols)
    THEN { [raised |-> Some("KeyError"), dff |-> d, bar |-> None, line |-> None, map |-> None] }
    ELSE { [raised |-> None, dff |-> d,
            bar |-> Some(fig_bar(e, d)), line |-> Some(fig_line(e, d)), map |-> Some(m)]
           : m \in fig_map(e, d) }

update_report(e, base, rq) == update_report_from(e, df_copy(base), rq)

(***************************************************************************)
(* Bounded inputs: the file's rows and the callback's arguments.           *)
(***************************************************************************)
MaxRows == 3

Row(b, y, v, f, inj, lat, lon) ==
    ("CRASH_DATETIME" :> None) @@ ("BOROUGH" :> b) @@ ("YEAR" :> y)
    @@ ("VEHICLE TYPE CODE 1" :> v) @@ ("CONTRIBUTING FACTOR VEHICLE 1" :> f)
    @@ ("INJURY_TYPE" :> inj) @@ ("LATITUDE" :> lat) @@ ("LONGITUDE" :> lon)

RowSeq ==
    << Row(Some("BRONX"), Some(2021), Some(<<"T","a","x","i">>), Some("UNSPECIFIED"),
           Some("PEDESTRIAN"), Some(1), Some(1)),
       Row(Some("BROOKLYN"), Some(2022), Some(<<"S","e","d","a","n">>), Some("DRIVER INATTENTION"),
           Some("CYCLIST"), Some(2), Some(2)),
       Row(Some("BRONX"), Some(2022), None, None,
           Some("MOTORIST"), Some(3), None),
       Row(None, None, Some(<<"m","o","t","o","r","c","y","c","l","e">>), Some("UNSPECIFIED"),
           None, None, None) >>

RowPool == { RowSeq[i] : i \in DOMAIN RowSeq }

\* a file with the columns cols and up to MaxRows rows
Files(cols) ==
    { [cols |-> cols, rows |-> [i \in DOMAIN rs |-> [c \in cols |-> rs[i][c]]]]
      : rs \in SeqsUpTo(RowPool, MaxRows) }

Text_brooklyn_2022 == <<"b","r","o","o","k","l","y","n"," ","2","0","2","2">>
Text_bronx_pedestrian == <<"b","r","o","n","x"," ","p","e","d","e","s","t","r","i","a","n">>
Text_cyclist_1999_2021 == <<"c","y","c","l","i","s","t"," ","1","9","9","9"," ","2","0","2","1">>

Request(b, y, v, f, inj, t) ==
    [boroughs |-> b, years |-> y, vehicles |-> v, factors |-> f, injuries |-> inj,
     search_text |-> t]

Requests ==
    { Request(b, y, v, f, inj, t) :
        b \in {None, Some(<<>>), Some(<<"BRONX">>)},
        y \in {None, Some(<<2022>>)},
        v \in {None, Some(<<"TAXI", "CAR">>)},
        f \in {None, Some(<<"UNSPECIFIED">>)},
        inj \in {None, Some(<<"PEDESTRIAN", "CYCLIST">>)},
        t \in {None, Some(<<>>), Some(Text_brooklyn_2022), Some(Text_bronx_pedestrian),
               Some(Text_cyclist_1999_2021)} }

NoCsv == [cols |-> {}, rows |-> <<>>]
NoThreads == <<>>

InitNormalize ==
    /\ entry \in Entries
    /\ pc = "call"
    /\ arg \in RawVehicleTypes
    /\ ret = None
    /\ csv = NoCsv /\ df = <<>> /\ options = None
    /\ req = None /\ dff = None /\ out = None /\ threads = NoThreads

\* one call normalize_vehicle(arg)
CallNormalize ==
    /\ pc = "call"
    /\ ret' = Some(normalize_vehicle(entry, arg))
    /\ pc' = "return"
    /\ UNCHANGED <<entry, csv, df, options, req, dff, out, threads, arg>>

NextNormalize == CallNormalize

SpecNormalize == InitNormalize /\ [][NextNormalize]_vars

(***************************************************************************)
(* The program up to its first report: the import, then one click.         *)
(***************************************************************************)
InitReport ==
    /\ entry \in Entries
    /\ pc = "start"
    /\ csv \in Files(CsvColumns)
    /\ df = EmptyFrame /\ options = None
    /\ req = None /\ dff = None /\ out = None
    /\ threads = NoThreads /\ arg = None /\ ret = None

\* the interpreter runs the file
Load ==
    /\ pc = "start"
    /\ LET m == import_module(entry, csv) IN
         /\ pc' = IF m.raised # None THEN "crashed" ELSE "serving"
         /\ df' = m.df
         /\ options' = m.options
    /\ UNCHANGED <<entry, csv, req, dff, out, threads, arg, ret>>

\* one click on Generate Report with the State values rq
UpdateReport(rq) ==
    /\ pc = "serving"
    /\ out = None
    /\ \E res \in update_report(entry, df, rq) :
         /\ req' = Some(rq)
         /\ dff' = Some(res.dff)
         /\ out' = Some([raised |-> res.raised, bar |-> res.bar, line |-> res.line, map |-> res.map])
         /\ df' = df_after_callback(df, res.dff)
    /\ UNCHANGED <<entry, pc, csv, options, threads, arg, ret>>

Click == \E rq \in Requests : UpdateReport(rq)

NextReport == Load \/ Click

SpecReport == InitReport /\ [][NextReport]_vars


(***************************************************************************)
(* One call of apply_search_text, on the frame of a file that holds each   *)
(* row of the pool once.                                                   *)
(***************************************************************************)
MaxTokens == 2

TextTokens ==
    { <<>>,
      <<"B","r","o","o","k","l","y","n">>,
      <<"b","r","o","n","x">>,
      <<"Q","u","e","e","n","s">>,
      <<"s","t","a","t","e","n">>,
      <<"i","s","l","a","n","d">>,
      <<"2","0","2","2">>,
      <<"2","0","1","2">>,
      <<"2","0","3","1">>,
      <<"1","9","9","9">>,
      <<"2","0","2","2","1">>,
      <<"p","e","d","e","s","t","r","i","a","n">>,
      <<"c","y","c","l","i","s","t">>,
      <<"b","i","c","y","c","l","e">>,
      <<"D","r","i","v","e","r">>,
      <<"c","r","a","s","h","e","s">> }

Text_example_1 ==
    <<"B","r","o","o","k","l","y","n"," ","2","0","2","2"," ",
      "p","e","d","e","s","t","r","i","a","n"," ","c","r","a","s","h","e","s">>
Text_example_2 ==
    <<"c","y","c","l","i","s","t"," ","i","n"," ","t","h","e"," ","b","r","o","n","x">>

\* None, the empty string, every text of 1..MaxTokens tokens (the empty token
\* gives leading, trailing and doubled blanks), and the two examples of the search box
SearchTexts ==
    {None, Some(Text_example_1), Some(Text_example_2)}
    \cup { Some(join(ts)) : ts \in SeqsUpTo(TextTokens, MaxTokens) }

InitSearch ==
    /\ entry \in Entries
    /\ pc = "call"
    /\ arg \in SearchTexts
    /\ ret = None
    /\ csv = [cols |-> CsvColumns, rows |-> RowSeq]
    /\ df = import_module(entry, csv).df
    /\ options = None /\ req = None /\ dff = None /\ out = None /\ threads = NoThreads

\* one call apply_search_text(df, arg)
CallApplySearchText ==
    /\ pc = "call"
    /\ ret' = Some(apply_search_text(df, arg))
    /\ pc' = "return"
    /\ UNCHANGED <<entry, csv, df, options, req, dff, out, threads, arg>>

NextSearch == CallApplySearchText

SpecSearch == InitSearch /\ [][NextSearch]_vars

(***************************************************************************)
(* The import of a file that may lack a column, then one click.            *)
(***************************************************************************)
ColumnSets == {CsvColumns} \cup { CsvColumns \ {c} : c \in CsvColumns }

ServerRequests ==
    { Request(None, None, None, None, None, None),
      Request(Some(<<"BRONX">>), None, None, None, None, None),
      Request(None, None, Some(<<"TAXI", "CAR">>), None, None, Some(Text_brooklyn_2022)) }

InitLoad ==
    /\ entry \in Entries
    /\ pc = "start"
    /\ csv \in UNION { Files(cols) : cols \in ColumnSets }
    /\ df = EmptyFrame /\ options = None
    /\ req = None /\ dff = None /\ out = None
    /\ threads = NoThreads /\ arg = None /\ ret = None

ClickLoad == \E rq \in ServerRequests : UpdateReport(rq)

NextLoad == Load \/ ClickLoad

SpecLoad == InitLoad /\ [][NextLoad]_vars

(***************************************************************************)
(* The server: the import, then clicks served by request threads.  A       *)
(* callback reads the shared df once, at df.copy(); the rest works on its  *)
(* own frame, so a thread takes two steps: the copy, and all that follows. *)
(***************************************************************************)
Threads == {"t1", "t2"}

IdleThread == [pc |-> "idle", req |-> None, dff |-> None, out |-> None]

Init ==
    /\ entry \in Entries
    /\ pc = "start"
    /\ csv \in Files(CsvColumns)
    /\ df = EmptyFrame /\ options = None
    /\ threads = [t \in Threads |-> IdleThread]
    /\ req = None /\ dff = None /\ out = None /\ arg = None /\ ret = None

\* thread t takes a click and runs update_report up to dff = df.copy()
Begin(t, rq) ==
    /\ pc = "serving"
    /\ threads[t].pc \in {"idle", "done"}
    /\ threads' = [threads EXCEPT ![t] =
                      [pc |-> "running", req |-> Some(rq), dff |-> Some(df_copy(df)), out |-> None]]
    /\ UNCHANGED <<entry, pc, csv, df, options, req, dff, out, arg, ret>>

\* thread t runs the rest of update_report and returns
Finish(t) ==
    /\ pc = "serving"
    /\ threads[t].pc = "running"
    /\ \E res \in update_report_from(entry, Get(threads[t].dff), Get(threads[t].req)) :
         /\ threads' = [threads EXCEPT ![t] =
                           [pc |-> "done", req |-> threads[t].req, dff |-> Some(res.dff),
                            out |-> Some([raised |-> res.raised, bar |-> res.bar,
                                          line |-> res.line, map |-> res.map])]]
         /\ df' = df_after_callback(df, res.dff)
    /\ UNCHANGED <<entry, pc, csv, options, req, dff, out, arg, ret>>

BeginSome == \E t \in Threads, rq \in ServerRequests : Begin(t, rq)

FinishSome == \E t \in Threads : Finish(t)

Next == Load \/ BeginSome \/ FinishSome

Spec == Init /\ [][Next]_vars


(***************************************************************************)
(* Properties.                                                             *)
(***************************************************************************)
Returned == pc = "return" /\ ret # None

\* the rule list of the vehicle category normalizer, in its fixed order
VehicleRules ==
    << [category |-> "AMBULANCE", substrings |-> {S_AMB, S_AMBUL}],
       [category |-> "TAXI", substrings |-> {S_TAXI}],
       [category |-> "BUS", substrings |-> {S_BUS}],
       [category |-> "MOTORCYCLE", substrings |-> {S_MOTORCYCLE, S_SCOOTER, S_MOTORBIKE}],
       [category |-> "BICYCLE", substrings |-> {S_BICYCLE, S_BIKE}],
       [category |-> "SUV", substrings |-> {S_SUV, S_STATION_WAGON}],
       [category |-> "TRUCK/VAN", substrings |-> {S_PICK, S_PICKUP, S_PICKxUP, S_VAN, S_TRUCK}],
       [category |-> "CAR", substrings |-> {S_SEDAN, S_4_DOOR, S_4xDOOR, S_2_DOOR, S_2xDOOR}] >>

RuleMatches(i, s) == \E p \in VehicleRules[i].substrings : In(p, s)

FirstRuleCategory(s) ==
    IF \E i \in DOMAIN VehicleRules : RuleMatches(i, s)
    THEN VehicleRules[CHOOSE i \in DOMAIN VehicleRules :
                          RuleMatches(i, s) /\ \A j \in 1..(i - 1) : ~RuleMatches(j, s)].category
    ELSE "OTHER"

\* C2: for every non-null, non-empty raw vehicle type, normalize_vehicle returns
\* the category of the first rule of the fixed list with a substring in the
\* upper-cased input, spelled as in the list, and OTHER when no rule matches.
C2_FirstRuleWins ==
    (Returned /\ arg # None /\ arg # Some(<<>>))
        => ret = Some(FirstRuleCategory(upper(Get(arg))))

\* C4: normalize_vehicle returns UNKNOWN for a missing raw vehicle type and for
\* the empty string.
C4_NullAndEmptyAreUnknown ==
    (Returned /\ (arg = None \/ arg = Some(<<>>))) => ret = Some("UNKNOWN")

BoroughOrder == <<"BRONX", "BROOKLYN", "MANHATTAN", "QUEENS", "STATEN ISLAND">>
BoroughChars == <<S_BRONX, S_BROOKLYN, S_MANHATTAN, S_QUEENS, S_STATEN_ISLAND>>

\* a token that is exactly four digits and a year of the accepted range
IsYearToken(t) ==
    /\ Len(t) = 4
    /\ \A i \in 1..4 : t[i] \in {"0","1","2","3","4","5","6","7","8","9"}
    /\ 2012 <= int(t) /\ int(t) <= 2030

BoroughHintOk(text_u, hint) ==
    /\ \A i \in DOMAIN BoroughOrder :
         hint = Some(BoroughOrder[i])
             <=> /\ In(BoroughChars[i], text_u)
                 /\ \A j \in 1..(i - 1) : ~In(BoroughChars[j], text_u)
    /\ hint = None <=> \A i \in DOMAIN BoroughOrder : ~In(BoroughChars[i], text_u)

YearHintOk(text_u, hint) ==
    LET tokens == split(text_u) IN
    /\ hint = None <=> \A i \in DOMAIN tokens : ~IsYearToken(tokens[i])
    /\ hint # None =>
         \E i \in DOMAIN tokens :
             /\ IsYearToken(tokens[i])
             /\ hint = Some(int(tokens[i]))
             /\ \A j \in 1..(i - 1) : ~IsYearToken(tokens[j])

InjuryHintOk(text_u, hint) ==
    hint = IF In(S_PEDESTRIAN, text_u) THEN Some("PEDESTRIAN")
           ELSE IF In(S_CYCLIST, text_u) \/ In(S_BICYCLE, text_u) THEN Some("CYCLIST")
           ELSE IF In(S_MOTORIST, text_u) \/ In(S_DRIVER, text_u) THEN Some("MOTORIST")
           ELSE None

\* C3: the hints apply_search_text extracts: the first borough of the fixed
\* order that occurs in the upper-cased text, the first token that is four
\* digits and a year in 2012..2030, the injury hint by priority PEDESTRIAN,
\* then CYCLIST/BICYCLE, then MOTORIST/DRIVER; all three null for a null or
\* empty text.
C3_HintsExtracted ==
    Returned =>
        LET r == Get(ret) IN
        IF arg = None \/ arg = Some(<<>>)
        THEN r.borough = None /\ r.year = None /\ r.injury = None
        ELSE /\ BoroughHintOk(upper(Get(arg)), r.borough)
             /\ YearHintOk(upper(Get(arg)), r.year)
             /\ InjuryHintOk(upper(Get(arg)), r.injury)

\* a text that names QUEENS before BRONX, and the hint is BRONX
C3_Witness ==
    /\ Returned
    /\ arg = Some(<<"Q","u","e","e","n","s"," ","b","r","o","n","x">>)
    /\ Get(ret).borough = Some("BRONX")


Served == pc = "serving" /\ out # None

Values(sel) == { Get(sel)[i] : i \in DOMAIN Get(sel) }

\* a dimension with a non-empty selection admits the cells in the selection
DimensionAdmits(sel, cell) ==
    (sel # None /\ Get(sel) # <<>>) => (cell # None /\ Get(cell) \in Values(sel))

StructuredAdmit(rq, r) ==
    /\ DimensionAdmits(rq.boroughs, r["BOROUGH"])
    /\ DimensionAdmits(rq.years, r["YEAR"])
    /\ DimensionAdmits(rq.vehicles, r["VEHICLE_CATEGORY"])
    /\ DimensionAdmits(rq.factors, r["CONTRIBUTING FACTOR VEHICLE 1"])
    /\ DimensionAdmits(rq.injuries, r["INJURY_TYPE"])

\* a non-null hint admits the cells equal to it
HintAdmits(hint, cell) == hint # None => cell = hint

HintsAdmit(h, r) ==
    /\ HintAdmits(h.borough, r["BOROUGH"])
    /\ HintAdmits(h.year, r["YEAR"])
    /\ HintAdmits(h.injury, r["INJURY_TYPE"])

\* C1: the subset update_report filters down to is exactly the rows of the base
\* that every non-empty selection admits and every non-null hint of the search
\* text admits; an empty or absent selection constrains nothing.
C1_FilterIsConjunction ==
    Served =>
        LET rq == Get(req)
            h == apply_search_text(df, rq.search_text)
        IN  /\ Get(dff).cols = df.cols
            /\ Get(dff).rows =
                 SelectSeq(df.rows, LAMBDA r : StructuredAdmit(rq, r) /\ HintsAdmit(h, r))

\* selections on borough and injury type and a text with two hints, keeping
\* some rows and dropping some
C1_Witness ==
    /\ Served
    /\ Get(req).boroughs = Some(<<"BRONX">>)
    /\ Get(req).injuries = Some(<<"PEDESTRIAN", "CYCLIST">>)
    /\ Get(req).search_text = Some(Text_bronx_pedestrian)
    /\ Get(dff).rows # <<>>
    /\ Len(Get(dff).rows) < Len(df.rows)

HasCoordinates(r) == r["LATITUDE"] # None /\ r["LONGITUDE"] # None

\* the explicit no-data result: the titled scatter without data
IsNoData(fig) == fig.chart = "scatter" /\ fig.data = <<>>

\* C6: an empty filtered subset gives the no-data result in all three views and
\* no exception; a view also gives the no-data result when the subset has rows
\* but no non-null borough, no non-null year, or no row with coordinates.
C6_NoDataIsExplicit ==
    Served =>
        LET o == Get(out)
            rows == Get(dff).rows
        IN  /\ o.raised = None
            /\ rows = <<>> =>
                 IsNoData(Get(o.bar)) /\ IsNoData(Get(o.line)) /\ IsNoData(Get(o.map))
            /\ (\A i \in DOMAIN rows : rows[i]["BOROUGH"] = None) => IsNoData(Get(o.bar))
            /\ (\A i \in DOMAIN rows : rows[i]["YEAR"] = None) => IsNoData(Get(o.line))
            /\ (\A i \in DOMAIN rows : ~HasCoordinates(rows[i])) => IsNoData(Get(o.map))

\* C8: for a non-empty subset the temporal view has one bucket per non-null
\* year of the subset, each with the number of the subset's rows of that year,
\* none for the null year, and the buckets ascend strictly by year.
C8_YearBuckets ==
    (Served /\ Get(out).raised = None /\ Get(dff).rows # <<>>) =>
        LET line == Get(Get(out).line)
            rows == Get(dff).rows
            years == { Get(rows[i]["YEAR"]) : i \in { j \in DOMAIN rows : rows[j]["YEAR"] # None } }
        IN  /\ line.chart = "line"
            /\ { line.data[i].key : i \in DOMAIN line.data } = years
            /\ \A i \in DOMAIN line.data :
                 line.data[i].crash_count =
                     Cardinality({ j \in DOMAIN rows : rows[j]["YEAR"] = Some(line.data[i].key) })
            /\ \A i \in 1..(Len(line.data) - 1) : line.data[i].key < line.data[i + 1].key

\* a subset whose first row is of 2022, with a row of 2021 and a row without year
C8_Witness ==
    /\ Served
    /\ Len(Get(dff).rows) = 3
    /\ Get(dff).rows[1]["YEAR"] = Some(2022)
    /\ \E i \in DOMAIN Get(dff).rows : Get(dff).rows[i]["YEAR"] = None
    /\ Len(Get(Get(out).line).data) = 2

Falsy(x) == x = None \/ x = Some(<<>>)

\* C9: with a null or empty search text the subset is the one the structured
\* selections give alone; with no selection and a null text it is the whole
\* base, unchanged.
C9_EmptyTextIsNoOp ==
    Served =>
        LET rq == Get(req) IN
        /\ Falsy(rq.search_text) =>
             Get(dff).rows = SelectSeq(df.rows, LAMBDA r : StructuredAdmit(rq, r))
        /\ ( /\ Falsy(rq.boroughs) /\ Falsy(rq.years) /\ Falsy(rq.vehicles)
             /\ Falsy(rq.factors) /\ Falsy(rq.injuries)
             /\ rq.search_text = None ) => Get(dff) = df

\* an empty search text beside a borough selection that drops some rows
C9_Witness ==
    /\ Served
    /\ Get(req).search_text = Some(<<>>)
    /\ Get(req).boroughs = Some(<<"BRONX">>)
    /\ Get(dff).rows # <<>>
    /\ Len(Get(dff).rows) < Len(df.rows)

\* C10: the load does not fail for a file that lacks an expected column, and
\* the report requests that follow do not raise.
C10_MissingColumnTolerated ==
    /\ pc # "crashed"
    /\ out # None => Get(out).raised = None

LoadedFrame == import_module(entry, csv).df

Done(t) == threads[t].pc = "done"

\* C5: once loaded, the module's df is the frame the load built, whatever
\* requests ran or are running, and what a finished request returned is what
\* update_report gives for that frame and the request's own arguments.
C5_BaseIsReadOnly ==
    pc = "serving" =>
        LET loaded == LoadedFrame IN
        /\ df = loaded
        /\ \A t \in DOMAIN threads :
             /\ threads[t].pc = "running" => threads[t].dff = Some(loaded)
             /\ Done(t) =>
                  [raised |-> Get(threads[t].out).raised, dff |-> Get(threads[t].dff),
                   bar |-> Get(threads[t].out).bar, line |-> Get(threads[t].out).line,
                   map |-> Get(threads[t].out).map]
                      \in update_report(entry, loaded, Get(threads[t].req))

\* one thread has returned a proper part of the base while the other holds
\* its copy of the whole base
C5_Witness ==
    /\ pc = "serving"
    /\ Done("t1")
    /\ Get(threads["t1"].dff).rows # <<>>
    /\ Len(Get(threads["t1"].dff).rows) < Len(df.rows)
    /\ threads["t2"].pc = "running"
    /\ Get(threads["t2"].dff).rows = df.rows

\* what the map shows of the sampled rows: position and colour, in sample order
Plotted(points) ==
    [i \in DOMAIN points |->
        <<points[i]["LATITUDE"], points[i]["LONGITUDE"], points[i]["INJURY_TYPE"]>>]

ClaimedCap == IF entry = "main" THEN 5000 ELSE 8000

\* C7: the geospatial view holds only rows with both coordinates, never more
\* than the cap, all of them when they are no more than the cap, and two
\* requests with the same filtered subset get the same sample.
C7_SampleIsBoundedAndFixed ==
    /\ \A t \in DOMAIN threads :
         (Done(t) /\ Get(threads[t].out).raised = None) =>
             LET points == Get(Get(threads[t].out).map).data
                 located == SelectSeq(Get(threads[t].dff).rows, HasCoordinates)
             IN  /\ \A i \in DOMAIN points :
                      HasCoordinates(points[i])
                      /\ \E j \in DOMAIN located : located[j] = points[i]
                 /\ Len(points) <= ClaimedCap
                 /\ Len(located) <= ClaimedCap =>
                      { points[i] : i \in DOMAIN points } = { located[j] : j \in DOMAIN located }
    /\ \A t1, t2 \in DOMAIN threads :
         ( /\ Done(t1) /\ Done(t2)
           /\ Get(threads[t1].out).raised = None /\ Get(threads[t2].out).raised = None
           /\ threads[t1].dff = threads[t2].dff )
             => Plotted(Get(Get(threads[t1].out).map).data)
                    = Plotted(Get(Get(threads[t2].out).map).data)


====
